---- MODULE Spec2Model ----
(***************************************************************************)
(* Model of the note API (src/src/note.ts): the Note class, a JavaScript   *)
(* array of Memo objects, the callers that hold references to what the     *)
(* class hands out, and the HTTP routes that sit in front of it.           *)
(*                                                                         *)
(* JavaScript objects are modelled by a heap: an object is an id, its      *)
(* fields live in heap[id], and two references alias exactly when they     *)
(* hold the same id.  A memo object is a function from the property names  *)
(* it owns to their values, so an absent property and a property whose     *)
(* value is undefined are different things, as in JavaScript.              *)
(*                                                                         *)
(* An index is a JavaScript number.  It is represented in halves: the      *)
(* model value 2*i stands for the integer i and the model value 1 for 0.5. *)
(***************************************************************************)
EXTENDS Integers, Sequences, FiniteSets, TLC

\* ---------------------------------------------------------------- bounds
\* Longest memo sequence explored.
MaxLen == 2
\* Longest memo sequence explored with the routes in front of the class.
MaxAppLen == 2
\* Longest memo sequence and longest held array explored where callers keep arrays.
MaxSnapLen == 2
\* Longest memo sequence explored where callers keep memo objects.
MaxRefLen == 1
\* Longest memo sequence explored with two users behind the routes.
MaxApiLen == 2
\* Longest memo sequence explored with indices that are not integers.
MaxNumLen == 2
\* Longest memo sequence explored with the calls of two clients in the process.
MaxConcLen == 2

\* ---------------------------------------------------------------- values
Undefined == "<undefined>"
\* The reference that denotes no object (JavaScript undefined).
Null == 0

ErrInvalidMemo == "InvalidMemo"
ErrInvalidIndex == "InvalidIndex"

Keys == {"data", "author"}

SeedMemo == [data |-> "Moonhalo", author |-> "saltyaom"]

\* Reading a property of an object: an absent property reads as undefined.
Field(o, k) == IF k \in DOMAIN o THEN o[k] ELSE Undefined

\* JavaScript truthiness of a string-or-undefined value (the `!x` test).
Truthy(v) == v # Undefined /\ v # ""

\* Object spread { ...a, ...b }: own properties of a, overwritten by the own
\* properties of b (a property of b whose value is undefined is still copied).
Spread(a, b) == [k \in (DOMAIN a) \cup (DOMAIN b) |-> IF k \in DOMAIN b THEN b[k] ELSE a[k]]

\* The empty object; also what spreading undefined contributes.
EmptyObj == [k \in {} |-> Undefined]

\* ------------------------------------------------------------------ heap
\* A fresh object id: the ids in use are always 1..n.
Alloc(h) == Cardinality(DOMAIN h) + 1

WithObject(h, id, obj) == [o \in (DOMAIN h) \cup {id} |-> IF o = id THEN obj ELSE h[o]]

Range(s) == {s[k] : k \in DOMAIN s}

\* The memos (by value) that a sequence of references denotes.
Contents(h, elems) == [k \in 1..Len(elems) |-> h[elems[k]]]

\* -------------------------------------------------------------- indices
IsInt(index) == index % 2 = 0

\* ToIntegerOrInfinity of a non-negative number (used by Array.prototype.splice).
ToInteger(index) == index \div 2

\* The integer indices -1..n, and with them the index 0.5.
IntIndices(n) == {2 * i : i \in -1..n}

AllIndices(n) == IntIndices(n) \cup {1}

\* Removing the element at 0-based position i of a sequence.
SpliceOne(s, i) ==
  IF i >= Len(s) THEN s ELSE [k \in 1..(Len(s) - 1) |-> IF k <= i THEN s[k] ELSE s[k + 1]]

\* ---------------------------------------------------------- class Note
\* The state of a Note instance is a record st:
\*   st.heap   the objects;
\*   st.data   the elements 0..length-1 of the private array this.data;
\*   st.props  the non-index properties of that array (key 1 is "0.5").
\* Every method returns [st, status, val]: the state afterwards, "ok" or the
\* error thrown, and the value returned.

\* An array value: `live` tells whether it is the array this.data itself.
ArrayCopy(elems) == [kind |-> "array", live |-> FALSE, elems |-> elems]

MemoRef(ref) == [kind |-> "memo", ref |-> ref]

NoValue == [kind |-> "none"]

Thrown(st, err) == [st |-> st, status |-> err, val |-> NoValue]

Returned(st, val) == [st |-> st, status |-> "ok", val |-> val]

\* A slip: the upper end of the range is included.
isValidIndex_inclusive(st, index) == index >= 0 /\ index <= 2 * Len(st.data)

isValidIndex(st, index) == index >= 0 /\ index < 2 * Len(st.data)

\* this.data[index]: an element, a non-index property, or undefined (Null).
ElementAt(st, index) ==
  IF IsInt(index) /\ index >= 0 /\ ToInteger(index) < Len(st.data)
    THEN st.data[ToInteger(index) + 1]
    ELSE IF index \in DOMAIN st.props THEN st.props[index] ELSE Null

\* this.data[index] = ref: replaces an element, extends the array by one when
\* index is its length, and otherwise sets a non-index property.
AssignAt(st, index, ref) ==
  IF IsInt(index) /\ index >= 0 /\ ToInteger(index) < Len(st.data)
    THEN [st EXCEPT !.data[ToInteger(index) + 1] = ref]
    ELSE IF IsInt(index) /\ ToInteger(index) = Len(st.data)
      THEN [st EXCEPT !.data = Append(st.data, ref)]
      ELSE [st EXCEPT !.props = [k \in (DOMAIN st.props) \cup {index} |->
                                  IF k = index THEN ref ELSE st.props[k]]]

\* A slip: the live array is returned instead of a copy.
getAll_live(st) == Returned(st, [kind |-> "array", live |-> TRUE, elems |-> <<>>])

\* [...this.data]
getAll(st) == Returned(st, ArrayCopy(st.data))

\* A slip: the memo is put in front instead of at the end.
add_unshift(st, memo) ==
  IF ~Truthy(Field(st.heap[memo], "data")) \/ ~Truthy(Field(st.heap[memo], "author"))
    THEN Thrown(st, ErrInvalidMemo)
    ELSE LET st2 == [st EXCEPT !.data = <<memo>> \o st.data]
         IN  Returned(st2, ArrayCopy(st2.data))

\* A slip: only the data field is validated.
add_onlyData(st, memo) ==
  IF ~Truthy(Field(st.heap[memo], "data"))
    THEN Thrown(st, ErrInvalidMemo)
    ELSE LET st2 == [st EXCEPT !.data = Append(st.data, memo)]
         IN  Returned(st2, ArrayCopy(st2.data))

\* A slip: the memo is pushed before it is validated.
add_pushFirst(st, memo) ==
  LET st2 == [st EXCEPT !.data = Append(st.data, memo)]
  IN  IF ~Truthy(Field(st.heap[memo], "data")) \/ ~Truthy(Field(st.heap[memo], "author"))
        THEN Thrown(st2, ErrInvalidMemo)
        ELSE Returned(st2, ArrayCopy(st2.data))

\* The statements of add after its check: push, and return a copy.
addBody(st, memo) ==
  LET st2 == [st EXCEPT !.data = Append(st.data, memo)]
  IN  Returned(st2, ArrayCopy(st2.data))

\* memo is a reference to the caller's object.
add(st, memo) ==
  IF ~Truthy(Field(st.heap[memo], "data")) \/ ~Truthy(Field(st.heap[memo], "author"))
    THEN Thrown(st, ErrInvalidMemo)
    ELSE addBody(st, memo)

\* The statements of remove after its check.
removeBody(st, index) ==
  LET updated == SpliceOne(st.data, ToInteger(index))
  IN  Returned(st, ArrayCopy(updated))

remove(st, index) ==
  IF ~isValidIndex(st, index)
    THEN Thrown(st, ErrInvalidIndex)
    ELSE removeBody(st, index)

\* A slip: the spread is written the other way round, the stored fields win.
update_oldWins(st, index, memo) ==
  IF ~isValidIndex(st, index)
    THEN Thrown(st, ErrInvalidIndex)
    ELSE IF Field(memo, "data") = Undefined /\ Field(memo, "author") = Undefined
      THEN Thrown(st, ErrInvalidMemo)
      ELSE LET old == ElementAt(st, index)
               id == Alloc(st.heap)
               merged == Spread(memo, IF old = Null THEN EmptyObj ELSE st.heap[old])
           IN  Returned(AssignAt([st EXCEPT !.heap = WithObject(st.heap, id, merged)], index, id),
                        MemoRef(id))

\* A slip: the merged memo is pushed instead of being assigned to its position.
update_push(st, index, memo) ==
  IF ~isValidIndex(st, index)
    THEN Thrown(st, ErrInvalidIndex)
    ELSE IF Field(memo, "data") = Undefined /\ Field(memo, "author") = Undefined
      THEN Thrown(st, ErrInvalidMemo)
      ELSE LET old == ElementAt(st, index)
               id == Alloc(st.heap)
               merged == Spread(IF old = Null THEN EmptyObj ELSE st.heap[old], memo)
           IN  Returned([st EXCEPT !.heap = WithObject(st.heap, id, merged),
                                   !.data = Append(st.data, id)],
                        MemoRef(id))

\* A slip: || for &&, and the memo is looked at before the index.
update_either(st, index, memo) ==
  IF Field(memo, "data") = Undefined \/ Field(memo, "author") = Undefined
    THEN Thrown(st, ErrInvalidMemo)
    ELSE IF ~isValidIndex(st, index)
      THEN Thrown(st, ErrInvalidIndex)
      ELSE LET old == ElementAt(st, index)
               id == Alloc(st.heap)
               merged == Spread(IF old = Null THEN EmptyObj ELSE st.heap[old], memo)
           IN  Returned(AssignAt([st EXCEPT !.heap = WithObject(st.heap, id, merged)], index, id),
                        MemoRef(id))

\* The statements of update after its two checks: merge, assign, return.
updateBody(st, index, memo) ==
  LET old == ElementAt(st, index)
      id == Alloc(st.heap)
      merged == Spread(IF old = Null THEN EmptyObj ELSE st.heap[old], memo)
  IN  Returned(AssignAt([st EXCEPT !.heap = WithObject(st.heap, id, merged)], index, id),
               MemoRef(id))

\* memo is the caller's partial object, by value: the spread copies it.
update(st, index, memo) ==
  IF ~isValidIndex(st, index)
    THEN Thrown(st, ErrInvalidIndex)
    ELSE IF Field(memo, "data") = Undefined /\ Field(memo, "author") = Undefined
      THEN Thrown(st, ErrInvalidMemo)
      ELSE updateBody(st, index, memo)

\* The statement of get after its check.
getBody(st, index) == Returned(st, MemoRef(ElementAt(st, index)))

get(st, index) ==
  IF ~isValidIndex(st, index)
    THEN Thrown(st, ErrInvalidIndex)
    ELSE getBody(st, index)

\* A slip, the one remove has: an empty array is returned and the store is left alone.
clear_returnsOnly(st) == Returned(st, ArrayCopy(<<>>))

clear(st) == Returned([st EXCEPT !.data = <<>>], ArrayCopy(<<>>))

count(st) == Returned(st, [kind |-> "number", n |-> Len(st.data)])



\* ------------------------------------------------ user service (user.ts)
NoUser == "<no user>"
NoToken == "<no cookie>"

ErrAlreadyExists == "AlreadyExists"
ErrAuthFailure == "AuthFailure"
ErrUnauthenticated == "Unauthenticated"

\* A slip: registering a name again replaces its secret.
register_overwrite(us, username, secret) ==
  [users |-> [u \in (DOMAIN us) \cup {username} |-> IF u = username THEN secret ELSE us[u]],
   status |-> IF username \in DOMAIN us THEN ErrAlreadyExists ELSE "ok"]

\* Credential Store: us maps each registered username to its secret.
register(us, username, secret) ==
  IF username \in DOMAIN us
    THEN [users |-> us, status |-> ErrAlreadyExists]
    ELSE [users |-> [u \in (DOMAIN us) \cup {username} |->
                       IF u = username THEN secret ELSE us[u]],
          status |-> "ok"]

verify(us, username, secret) == username \in DOMAIN us /\ us[username] = secret

\* Session Manager: ss maps each live token to the username it is bound to.
resolve(ss, token) == IF token \in DOMAIN ss THEN ss[token] ELSE NoUser

createSession(ss, token, username) ==
  [t \in (DOMAIN ss) \cup {token} |-> IF t = token THEN username ELSE ss[t]]

\* A slip: the token is left in the session map.
endSession_keeps(ss, token) ==
  [sessions |-> ss, status |-> IF resolve(ss, token) = NoUser THEN ErrUnauthenticated ELSE "ok"]

\* A slip: every session of the user is ended.
endSession_allOfUser(ss, token) ==
  IF resolve(ss, token) = NoUser
    THEN [sessions |-> ss, status |-> ErrUnauthenticated]
    ELSE [sessions |-> [t \in {x \in DOMAIN ss : ss[x] # ss[token]} |-> ss[t]], status |-> "ok"]

endSession(ss, token) ==
  IF resolve(ss, token) = NoUser
    THEN [sessions |-> ss, status |-> ErrUnauthenticated]
    ELSE [sessions |-> [t \in (DOMAIN ss) \ {token} |-> ss[t]], status |-> "ok"]

\* ---------------------------------------------------------------- clients
\* The clients whose requests are in the process at the same time.
Clients == {"c1", "c2"}

\* A client that is in no method of the class.
IdleCall == [pc |-> "idle"]

\* ----------------------------------------------------------------- state
VARIABLES
  heap,      \* the JavaScript objects in use: id -> memo object
  data,      \* Note.data, elements 0..length-1, as references
  props,     \* non-index properties of Note.data: key -> reference
  held,      \* the array a direct caller of the class holds, or NoValue
  heldMemo,  \* the memo object a direct caller holds, or Null
  users,     \* Credential Store
  sessions,  \* Session Manager
  ended,     \* history: the tokens signed out and not issued again since
  calls,     \* per client: the method call it has entered and not finished
  last       \* the last operation: name, arguments, outcome, value returned

vars == <<heap, data, props, held, heldMemo, users, sessions, ended, calls, last>>

St == [heap |-> heap, data |-> data, props |-> props]

\* The elements of the array the caller holds.
HeldElems == IF held.kind # "array" THEN <<>> ELSE IF held.live THEN data ELSE held.elems

\* What list() returns, by value.
List == Contents(heap, data)

HeldContents == Contents(heap, HeldElems)

\* A returned value as the caller reads it at the moment it is returned.
ValueOf(st, val) ==
  LET h == st.heap IN
  CASE val.kind = "array" ->
         [kind |-> "array", items |-> Contents(h, IF val.live THEN st.data ELSE val.elems)]
    [] val.kind = "memo" -> [kind |-> "memo", defined |-> val.ref # Null,
                             memo |-> IF val.ref = Null THEN EmptyObj ELSE h[val.ref]]
    [] OTHER -> val

\* ---- reclaiming objects no reference reaches, and numbering the rest 1..n
\* in the order the references reach them.
RECURSIVE PropRefs(_)
PropRefs(pr) ==
  IF DOMAIN pr = {} THEN <<>>
  ELSE LET m == CHOOSE x \in DOMAIN pr : \A y \in DOMAIN pr : x <= y
       IN  <<pr[m]>> \o PropRefs([x \in (DOMAIN pr) \ {m} |-> pr[x]])

Roots(d, pr, hd, hm) ==
  d \o PropRefs(pr)
    \o (IF hd.kind = "array" /\ ~hd.live THEN hd.elems ELSE <<>>)
    \o (IF hm = Null THEN <<>> ELSE <<hm>>)

FirstPos(s, x) == CHOOSE i \in 1..Len(s) : s[i] = x /\ \A j \in 1..(i - 1) : s[j] # x

Rank(s, x) == Cardinality({s[j] : j \in 1..FirstPos(s, x)})

\* The common end of every operation: r is the result of the method called,
\* hd and hm what the caller holds afterwards.
Commit(op, arg, r, code, hd, hm) ==
  LET roots == Roots(r.st.data, r.st.props, hd, hm)
      ren(o) == Rank(roots, o)
  IN  /\ data' = [k \in 1..Len(r.st.data) |-> ren(r.st.data[k])]
      /\ props' = [k \in DOMAIN r.st.props |-> ren(r.st.props[k])]
      /\ held' = IF hd.kind = "array" /\ ~hd.live
                   THEN [hd EXCEPT !.elems = [k \in 1..Len(hd.elems) |-> ren(hd.elems[k])]]
                   ELSE hd
      /\ heldMemo' = IF hm = Null THEN Null ELSE ren(hm)
      /\ heap' = [n \in 1..Cardinality(Range(roots)) |->
                    r.st.heap[CHOOSE o \in Range(roots) : ren(o) = n]]
      /\ last' = [op |-> op, arg |-> arg, status |-> r.status,
                  val |-> ValueOf(r.st, r.val), code |-> code]

TypeOK ==
  /\ DOMAIN heap = 1..Cardinality(DOMAIN heap)
  /\ Range(data) \subseteq DOMAIN heap
  /\ Range(props) \subseteq DOMAIN heap
  /\ Range(HeldElems) \subseteq DOMAIN heap
  /\ heldMemo \in (DOMAIN heap) \cup {Null}
  /\ \A t \in DOMAIN sessions : sessions[t] \in DOMAIN users
  /\ ended \cap DOMAIN sessions = {}

Init ==
  /\ heap = [o \in {1} |-> SeedMemo]
  /\ data = <<1>>
  /\ props = [k \in {} |-> Null]
  /\ held = NoValue
  /\ heldMemo = Null
  /\ users = [u \in {} |-> ""]
  /\ sessions = [t \in {} |-> ""]
  /\ ended = {}
  /\ calls = [c \in Clients |-> IdleCall]
  /\ last = [op |-> "init", arg |-> NoValue, status |-> "ok", val |-> NoValue, code |-> 0]

\* ------------------------------------------- direct callers of the class
\* The objects a caller passes to add and to update.
ObjectsOver(ds, as) ==
  {[data |-> d, author |-> a] : d \in ds, a \in as}
    \cup {[data |-> d] : d \in ds} \cup {[author |-> a] : a \in as} \cup {EmptyObj}

\* What the caller keeps of a call: nothing, the value returned, or (add) the
\* object it passed.
KeepNothing == {"nothing"}

KeepAny == {"nothing", "result", "argument"}

CallAdd(memos, keeps, maxLen) ==
  /\ \E m \in memos, keep \in keeps :
       LET id == Alloc(heap)
           r == add([St EXCEPT !.heap = WithObject(heap, id, m)], id)
       IN  /\ Len(r.st.data) <= maxLen
           /\ Commit("add", [memo |-> m, keep |-> keep], r, 0,
                     IF r.status = "ok" /\ keep = "result" THEN r.val ELSE held,
                     IF keep = "argument" THEN id ELSE heldMemo)
  /\ UNCHANGED <<users, sessions, ended, calls>>

CallRemove(indices, keeps) ==
  /\ \E index \in indices, keep \in keeps \ {"argument"} :
       LET r == remove(St, index)
       IN  Commit("remove", [index |-> index, keep |-> keep], r, 0,
                  IF r.status = "ok" /\ keep = "result" THEN r.val ELSE held, heldMemo)
  /\ UNCHANGED <<users, sessions, ended, calls>>

CallUpdate(indices, partials, keeps) ==
  /\ \E index \in indices, p \in partials, keep \in keeps \ {"argument"} :
       LET r == update(St, index, p)
       IN  Commit("update", [index |-> index, memo |-> p, keep |-> keep], r, 0, held,
                  IF r.status = "ok" /\ keep = "result" THEN r.val.ref ELSE heldMemo)
  /\ UNCHANGED <<users, sessions, ended, calls>>

CallGet(indices, keeps) ==
  /\ \E index \in indices, keep \in keeps \ {"argument"} :
       LET r == get(St, index)
       IN  Commit("get", [index |-> index, keep |-> keep], r, 0, held,
                  IF r.status = "ok" /\ keep = "result" THEN r.val.ref ELSE heldMemo)
  /\ UNCHANGED <<users, sessions, ended, calls>>

CallGetAll(keeps) ==
  /\ \E keep \in keeps \ {"argument"} :
       LET r == getAll(St)
       IN  Commit("getAll", [keep |-> keep], r, 0,
                  IF keep = "result" THEN r.val ELSE held, heldMemo)
  /\ UNCHANGED <<users, sessions, ended, calls>>

CallClear(keeps) ==
  /\ \E keep \in keeps \ {"argument"} :
       LET r == clear(St)
       IN  Commit("clear", [keep |-> keep], r, 0,
                  IF keep = "result" THEN r.val ELSE held, heldMemo)
  /\ UNCHANGED <<users, sessions, ended, calls>>

CallCount ==
  /\ LET r == count(St) IN Commit("count", NoValue, r, 0, held, heldMemo)
  /\ UNCHANGED <<users, sessions, ended, calls>>


\* What a caller can do with the references it holds.
\* Assigning to a field of the memo object held.
CallerSetField(keys, values) ==
  /\ heldMemo # Null
  /\ \E k \in keys, v \in values :
       LET h2 == [heap EXCEPT ![heldMemo] = Spread(@, [x \in {k} |-> v])]
       IN  Commit("callerSetField", [key |-> k, value |-> v],
                  Returned([St EXCEPT !.heap = h2], NoValue), 0, held, heldMemo)
  /\ UNCHANGED <<users, sessions, ended, calls>>

\* Taking an element of the array held.
CallerPick ==
  /\ held.kind = "array"
  /\ \E j \in 1..Len(HeldElems) :
       Commit("callerPick", [pos |-> j], Returned(St, NoValue), 0, held, HeldElems[j])
  /\ UNCHANGED <<users, sessions, ended, calls>>

\* push (of the memo held, or of a new object), pop and reverse on the array held.
Reverse(s) == [k \in 1..Len(s) |-> s[Len(s) + 1 - k]]

EditedElems(edit, elems, ref) ==
  CASE edit \in {"push", "pushNew"} -> Append(elems, ref)
    [] edit = "pop" -> SubSeq(elems, 1, Len(elems) - 1)
    [] edit = "reverse" -> Reverse(elems)

CallerEditArray(edits, maxLen) ==
  /\ held.kind = "array"
  /\ \E edit \in edits :
       /\ edit = "push" => heldMemo # Null /\ Len(HeldElems) < maxLen
       /\ edit = "pushNew" => Len(HeldElems) < maxLen
       /\ edit = "pop" => Len(HeldElems) > 0
       /\ edit = "reverse" => Len(HeldElems) > 1
       /\ LET id == Alloc(heap)
              h2 == IF edit = "pushNew"
                      THEN WithObject(heap, id, [data |-> "a", author |-> "alice"])
                      ELSE heap
              e2 == EditedElems(edit, HeldElems, IF edit = "pushNew" THEN id ELSE heldMemo)
          IN  IF held.live
                THEN Commit("callerEditArray", [edit |-> edit],
                            Returned([St EXCEPT !.heap = h2, !.data = e2], NoValue), 0,
                            held, heldMemo)
                ELSE Commit("callerEditArray", [edit |-> edit],
                            Returned([St EXCEPT !.heap = h2], NoValue), 0,
                            [held EXCEPT !.elems = e2], heldMemo)
  /\ UNCHANGED <<users, sessions, ended, calls>>

\* ------------------------------------------ calls of several clients
\* The methods of Note, one statement group at a time, for clients whose
\* requests are in the process together.  A call q is [op, index, memo].
ConcCalls ==
  {[op |-> "add", index |-> 0, memo |-> m] :
     m \in {[data |-> "a", author |-> "alice"], [data |-> "", author |-> "alice"]}}
    \cup {[op |-> "update", index |-> i, memo |-> [data |-> "b"]] : i \in {0, 2}}
    \cup {[op |-> o, index |-> 0, memo |-> EmptyObj] : o \in {"remove", "get"}}
    \cup {[op |-> "clear", index |-> 0, memo |-> EmptyObj]}

\* The object literal the caller of add passes, as a new object of the heap.
WithArg(st, q) == [st EXCEPT !.heap = WithObject(st.heap, Alloc(st.heap), q.memo)]

\* The whole method, from its first statement to its return or throw.
Whole(st, q) ==
  CASE q.op = "add" -> add(WithArg(st, q), Alloc(st.heap))
    [] q.op = "update" -> update(st, q.index, q.memo)
    [] q.op = "remove" -> remove(st, q.index)
    [] q.op = "get" -> get(st, q.index)
    [] q.op = "clear" -> clear(st)

\* The statements of the method that follow its checks.
Body(st, q) ==
  CASE q.op = "add" -> addBody(WithArg(st, q), Alloc(st.heap))
    [] q.op = "update" -> updateBody(st, q.index, q.memo)
    [] q.op = "remove" -> removeBody(st, q.index)
    [] q.op = "get" -> getBody(st, q.index)
    [] q.op = "clear" -> clear(st)

\* What a result is to its caller and to the store, by value.
Outcome(r) ==
  [status |-> r.status, val |-> ValueOf(r.st, r.val), list |-> Contents(r.st.heap, r.st.data)]

\* As if the methods were async with an await after their checks: the
\* statements of another call may run in between.
RunsToCompletion_awaits(cs, c) == TRUE

\* A JavaScript function that is not async runs to its return before any
\* other code of the process does: client c may take a step only when no
\* other client is inside a method.
RunsToCompletion(cs, c) == \A d \in (DOMAIN cs) \ {c} : cs[d].pc = "idle"

\* Client c calls a method, which runs its checks: it throws, or goes on to
\* its body; `expect` keeps what the whole method gives when run in one piece
\* on the store as the checks found it.
CallChecks(qs, maxLen) ==
  /\ \E c \in Clients, q \in qs :
       /\ calls[c].pc = "idle"
       /\ RunsToCompletion(calls, c)
       /\ LET r == Whole(St, q)
          IN  /\ Len(r.st.data) <= maxLen
              /\ IF r.status # "ok"
                   THEN /\ UNCHANGED calls
                        /\ Commit(q.op, [client |-> c, index |-> q.index, memo |-> q.memo],
                                  Thrown(St, r.status), 0, held, heldMemo)
                   ELSE /\ calls' = [calls EXCEPT ![c] = [pc |-> "checked", q |-> q,
                                                         expect |-> Outcome(r)]]
                        /\ UNCHANGED <<heap, data, props, held, heldMemo, last>>
  /\ UNCHANGED <<users, sessions, ended>>

\* The body of the method c is in, and its return.
CallActs ==
  /\ \E c \in Clients :
       /\ calls[c].pc = "checked"
       /\ RunsToCompletion(calls, c)
       /\ LET q == calls[c].q
          IN  Commit(q.op, [client |-> c, index |-> q.index, memo |-> q.memo],
                     Body(St, q), 0, held, heldMemo)
       /\ calls' = [calls EXCEPT ![c] = IdleCall]
  /\ UNCHANGED <<users, sessions, ended>>

\* ------------------------------------------------------ user routes
UserStep(op, arg, status, val, code) ==
  /\ last' = [op |-> op, arg |-> arg, status |-> status, val |-> val, code |-> code]
  /\ UNCHANGED <<heap, data, props, held, heldMemo, calls>>

SignUp(names, secrets) ==
  \E username \in names, secret \in secrets :
    LET r == register(users, username, secret)
    IN  /\ users' = r.users
        /\ UNCHANGED <<sessions, ended>>
        /\ UserStep("sign-up", [username |-> username, secret |-> secret], r.status, NoValue,
                    IF r.status = "ok" THEN 200 ELSE 400)

SignIn(names, secrets, tokens) ==
  \E username \in names, secret \in secrets :
    IF ~verify(users, username, secret)
      THEN /\ UNCHANGED <<users, sessions, ended>>
           /\ UserStep("sign-in", [username |-> username, secret |-> secret], ErrAuthFailure,
                       NoValue, 400)
      ELSE \E token \in tokens \ DOMAIN sessions :
             /\ sessions' = createSession(sessions, token, username)
             /\ ended' = ended \ {token}
             /\ UNCHANGED users
             /\ UserStep("sign-in", [username |-> username, secret |-> secret], "ok",
                         [kind |-> "token", token |-> token], 200)

SignOut(tokens) ==
  \E token \in tokens \cup {NoToken} :
    LET r == endSession(sessions, token)
    IN  /\ sessions' = r.sessions
        /\ ended' = IF r.status = "ok" THEN ended \cup {token} ELSE ended
        /\ UNCHANGED users
        /\ UserStep("sign-out", [token |-> token], r.status, NoValue,
                    IF r.status = "ok" THEN 200 ELSE 401)

\* ------------------------------------------------------ note routes
\* getUserId: the username the session cookie resolves to, or NoUser (the
\* request is then answered 401 and the handler does not run).
getUserId(ss, token) == resolve(ss, token)

\* A slip: the handler returns the message of the error instead of error(status, message).
Code_swallowed(r, failed) == IF r.status = ErrUnauthenticated THEN 401 ELSE 200

Code(r, failed) == IF r.status = "ok" THEN 200 ELSE IF r.status = ErrUnauthenticated THEN 401 ELSE failed

\* The handlers, as functions of the store, the session map and the request.
\* A slip: GET /note registered after getUserId.
listHandler_guarded(st, ss, token) ==
  IF getUserId(ss, token) = NoUser THEN Thrown(st, ErrUnauthenticated) ELSE getAll(st)

\* GET /note, registered before getUserId: the cookie is not looked at.
listHandler(st, ss, token) == getAll(st)

\* A slip: the author is taken from the body.
putHandler_bodyAuthor(st, ss, token, d) ==
  LET username == getUserId(ss, token)
      id == Alloc(st.heap)
  IN  IF username = NoUser
        THEN Thrown(st, ErrUnauthenticated)
        ELSE add([st EXCEPT !.heap = WithObject(st.heap, id, [data |-> d, author |-> d])], id)

\* PUT /note: note.add({ data, author: username })
putHandler(st, ss, token, d) ==
  LET username == getUserId(ss, token)
      id == Alloc(st.heap)
  IN  IF username = NoUser
        THEN Thrown(st, ErrUnauthenticated)
        ELSE add([st EXCEPT !.heap = WithObject(st.heap, id, [data |-> d, author |-> username])], id)

\* GET /note/:index
getHandler(st, ss, token, index) ==
  IF getUserId(ss, token) = NoUser THEN Thrown(st, ErrUnauthenticated) ELSE get(st, index)

\* DELETE /note/:index
deleteHandler(st, ss, token, index) ==
  IF getUserId(ss, token) = NoUser THEN Thrown(st, ErrUnauthenticated) ELSE remove(st, index)

\* A slip: PATCH /note/:index registered before getUserId.
patchHandler_unguarded(st, ss, token, index, d) ==
  update(st, index, IF getUserId(ss, token) = NoUser
                      THEN [data |-> d]
                      ELSE [data |-> d, author |-> getUserId(ss, token)])

\* A slip that is not in the code: only the author of a memo may change it.
patchHandler_ownerOnly(st, ss, token, index, d) ==
  LET username == getUserId(ss, token)
  IN  IF username = NoUser
        THEN Thrown(st, ErrUnauthenticated)
        ELSE IF isValidIndex(st, index) /\ ElementAt(st, index) # Null
                  /\ Field(st.heap[ElementAt(st, index)], "author") # username
          THEN Thrown(st, ErrInvalidIndex)
          ELSE update(st, index, [data |-> d, author |-> username])

\* PATCH /note/:index: note.update(index, { data, author: username })
patchHandler(st, ss, token, index, d) ==
  LET username == getUserId(ss, token)
  IN  IF username = NoUser
        THEN Thrown(st, ErrUnauthenticated)
        ELSE update(st, index, [data |-> d, author |-> username])

GetNotes(tokens) ==
  /\ \E token \in tokens \cup {NoToken} :
       LET r == listHandler(St, sessions, token)
       IN  Commit("GET /note", [token |-> token], r, Code(r, 500), held, heldMemo)
  /\ UNCHANGED <<users, sessions, ended, calls>>

PutNote(tokens, datas, maxLen) ==
  /\ \E token \in tokens \cup {NoToken}, d \in datas :
       LET r == putHandler(St, sessions, token, d)
       IN  /\ Len(r.st.data) <= maxLen
           /\ Commit("PUT /note", [token |-> token, data |-> d], r, Code(r, 400), held, heldMemo)
  /\ UNCHANGED <<users, sessions, ended, calls>>

GetNote(tokens, indices) ==
  /\ \E token \in tokens \cup {NoToken}, index \in indices :
       LET r == getHandler(St, sessions, token, index)
       IN  Commit("GET /note/:index", [token |-> token, index |-> index], r, Code(r, 404),
                  held, heldMemo)
  /\ UNCHANGED <<users, sessions, ended, calls>>

DeleteNote(tokens, indices) ==
  /\ \E token \in tokens \cup {NoToken}, index \in indices :
       LET r == deleteHandler(St, sessions, token, index)
       IN  Commit("DELETE /note/:index", [token |-> token, index |-> index], r, Code(r, 422),
                  held, heldMemo)
  /\ UNCHANGED <<users, sessions, ended, calls>>

PatchNote(tokens, indices, datas) ==
  /\ \E token \in tokens \cup {NoToken}, index \in indices, d \in datas :
       LET r == patchHandler(St, sessions, token, index, d)
       IN  Commit("PATCH /note/:index", [token |-> token, index |-> index, data |-> d], r,
                  Code(r, 422), held, heldMemo)
  /\ UNCHANGED <<users, sessions, ended, calls>>

\* ------------------------------------------------------ specifications
\* Inputs of the class called directly.
AddInputs == ObjectsOver({"", "a"}, {"", "alice"})

PartialInputs ==
  {[data |-> "b"], [data |-> ""], [author |-> "bob"], [data |-> Undefined, author |-> "bob"],
   [data |-> Undefined], EmptyObj}

Names == {"alice"}

Secrets == {"pw1", "pw2"}

IssuedTokens == {"t1"}

PresentedTokens == {"t1"}

Next ==
  \/ CallAdd(AddInputs, KeepNothing, MaxLen)
  \/ CallRemove(IntIndices(MaxLen), KeepNothing)
  \/ CallUpdate(IntIndices(MaxLen), PartialInputs, KeepNothing)
  \/ CallGet(IntIndices(MaxLen), KeepNothing)
  \/ CallGetAll(KeepNothing)
  \/ CallClear(KeepNothing)
  \/ CallCount

Spec == Init /\ [][Next]_vars

\* The whole program: the class called directly and through the routes.
NextApp ==
  \/ CallAdd({[data |-> "a", author |-> "alice"], [data |-> "", author |-> "alice"]},
             KeepNothing, MaxAppLen)
  \/ CallRemove(IntIndices(MaxAppLen), KeepNothing)
  \/ CallUpdate(IntIndices(MaxAppLen), {[data |-> "b"], EmptyObj}, KeepNothing)
  \/ CallGet(IntIndices(MaxAppLen), KeepNothing)
  \/ CallGetAll(KeepNothing)
  \/ CallClear(KeepNothing)
  \/ CallCount
  \/ SignUp(Names, Secrets)
  \/ SignIn(Names, Secrets, IssuedTokens)
  \/ SignOut(PresentedTokens)
  \/ GetNotes(PresentedTokens)
  \/ PutNote(PresentedTokens, {"", "a"}, MaxAppLen)
  \/ GetNote(PresentedTokens, IntIndices(MaxAppLen))
  \/ DeleteNote(PresentedTokens, IntIndices(MaxAppLen))
  \/ PatchNote(PresentedTokens, IntIndices(MaxAppLen), {"", "b"})

SpecApp == Init /\ [][NextApp]_vars

\* The service as its clients see it: two users, two session tokens, and
\* requests that carry a live token, a token no session has, or no cookie.
ApiNames == {"alice", "bob"}

ApiSecrets == {"pw1"}

ApiTokens == {"t1", "t2"}

NextApi ==
  \/ SignUp(ApiNames, ApiSecrets)
  \/ SignIn(ApiNames, ApiSecrets, ApiTokens)
  \/ SignOut(ApiTokens)
  \/ GetNotes(ApiTokens)
  \/ PutNote(ApiTokens, {"", "a"}, MaxApiLen)
  \/ GetNote(ApiTokens, IntIndices(MaxApiLen))
  \/ DeleteNote(ApiTokens, IntIndices(MaxApiLen))
  \/ PatchNote(ApiTokens, IntIndices(MaxApiLen), {"b"})

SpecApi == Init /\ [][NextApi]_vars

\* The routes with every index the schema t.Number() lets through, the
\* integers and a number that is not one.
NextNum ==
  \/ SignUp(Names, ApiSecrets)
  \/ SignIn(Names, ApiSecrets, IssuedTokens)
  \/ SignOut(PresentedTokens)
  \/ GetNotes(PresentedTokens)
  \/ PutNote(PresentedTokens, {"a"}, MaxNumLen)
  \/ GetNote(PresentedTokens, AllIndices(MaxNumLen))
  \/ DeleteNote(PresentedTokens, AllIndices(MaxNumLen))
  \/ PatchNote(PresentedTokens, AllIndices(MaxNumLen), {"b"})

SpecNum == Init /\ [][NextNum]_vars

\* The class called by two clients at the same time.
NextConc ==
  \/ CallChecks(ConcCalls, MaxConcLen)
  \/ CallActs

SpecConc == Init /\ [][NextConc]_vars

\* Callers of the class that keep the arrays they are handed and change them.
KeepResult == {"nothing", "result"}

NextSnap ==
  \/ CallAdd({[data |-> "a", author |-> "alice"], [data |-> "a"]}, KeepResult, MaxSnapLen)
  \/ CallRemove(IntIndices(MaxSnapLen), KeepResult)
  \/ CallUpdate(IntIndices(MaxSnapLen), {[data |-> "b"]}, KeepNothing)
  \/ CallGet(IntIndices(MaxSnapLen), KeepNothing)
  \/ CallGetAll(KeepResult)
  \/ CallClear(KeepResult)
  \/ CallerEditArray({"pushNew", "pop", "reverse"}, MaxSnapLen)

SpecSnap == Init /\ [][NextSnap]_vars

\* Callers of the class that keep the memo objects they pass and are handed,
\* and assign to their fields.
NextRefs ==
  \/ CallAdd({[data |-> "a", author |-> "alice"], [data |-> "a"]}, KeepAny, MaxRefLen)
  \/ CallRemove(IntIndices(MaxRefLen), KeepNothing)
  \/ CallUpdate(IntIndices(MaxRefLen), {[data |-> "b"]}, KeepResult)
  \/ CallGet(IntIndices(MaxRefLen), KeepResult)
  \/ CallGetAll(KeepResult)
  \/ CallClear(KeepNothing)
  \/ CallerSetField({"data"}, {"z"})
  \/ CallerPick

SpecRefs == Init /\ [][NextRefs]_vars

\* ---------------------------------------------------------------- claims
\* What get(index) answers in the current state: its outcome and the memo, by value.
GetIn(st, index) == LET r == get(st, index) IN [status |-> r.status, val |-> ValueOf(st, r.val)]

GetNow(index) == GetIn(St, index)

Succeeded(l, op) == l.op = op /\ l.status = "ok"

\* C1: after a successful remove(i), list() is one shorter, the memos before
\* position i are where they were and the memos after it are one position down.
C1_RemoveShiftsDown ==
  [][Succeeded(last', "remove") =>
       LET i == ToInteger(last'.arg.index)
       IN  /\ Len(List') = Len(List) - 1
           /\ \A j \in 1..Len(List') : List'[j] = IF j <= i THEN List[j] ELSE List[j + 1]]_vars

\* C2: the sequence returned by add, remove, clear and list is the sequence an
\* immediately following list() returns.
C2_ReturnedSnapshotIsList ==
  (last.op \in {"add", "remove", "clear", "getAll"} /\ last.status = "ok")
    => last.val.items = List

\* C3: a successful add(m) on a store of length n makes the length n+1, returns
\* a sequence whose last element is m, and get(n) then returns m.
C3_AddAppends ==
  [][Succeeded(last', "add") =>
       /\ Len(List') = Len(List) + 1
       /\ Len(last'.val.items) = Len(List) + 1
       /\ last'.val.items[Len(List) + 1] = last'.arg.memo
       /\ GetIn(St', 2 * Len(List)) = [status |-> "ok",
                                    val |-> [kind |-> "memo", defined |-> TRUE,
                                             memo |-> last'.arg.memo]]]_vars

C3_Witness == Succeeded(last, "add") /\ Len(List) >= 2 /\ List[Len(List)] # List[1]

\* C4: every memo in the store has a non-empty data field and a non-empty
\* author field.
C4_MemosNonEmpty ==
  \A k \in 1..Len(List) : Truthy(Field(List[k], "data")) /\ Truthy(Field(List[k], "author"))

\* C5: get, update and remove fail with InvalidIndex exactly when the index is
\* below 0 or not below the length (index 0 on an empty store included).
C5_IndexRule ==
  [][last'.op \in {"get", "update", "remove"} =>
       ((last'.arg.index < 0 \/ last'.arg.index >= 2 * Len(List))
          <=> last'.status = ErrInvalidIndex)]_vars

C5_Witness ==
  /\ last.op = "update" /\ last.status = ErrInvalidIndex
  /\ last.arg.index = 0 /\ Len(List) = 0
  /\ Field(last.arg.memo, "data") # Undefined

\* C6: add fails with InvalidMemo exactly when the data or the author of the
\* memo is empty or absent, and succeeds otherwise.
C6_AddValidation ==
  last.op = "add" =>
    /\ last.status \in {"ok", ErrInvalidMemo}
    /\ last.status = ErrInvalidMemo
         <=> (~Truthy(Field(last.arg.memo, "data")) \/ ~Truthy(Field(last.arg.memo, "author")))

C6_Witness ==
  /\ last.op = "add" /\ last.status = ErrInvalidMemo
  /\ Truthy(Field(last.arg.memo, "data")) /\ "author" \notin DOMAIN last.arg.memo

\* C7: a successful update(i, partial) replaces the fields partial supplies
\* (those that are not undefined, the test update itself applies), keeps the
\* others, and returns the memo get(i) then returns.
C7_UpdateMerges ==
  [][Succeeded(last', "update") =>
       LET i == ToInteger(last'.arg.index)
           p == last'.arg.memo
       IN  /\ \A k \in Keys :
                Field(List'[i + 1], k) =
                  IF Field(p, k) # Undefined THEN Field(p, k) ELSE Field(List[i + 1], k)
           /\ last'.val = GetIn(St', last'.arg.index).val]_vars

\* C8: an operation that fails leaves the memo sequence, the session map and
\* the credentials as they were.
C8_FailureChangesNothing ==
  [][last'.status # "ok" =>
       /\ List' = List
       /\ props' = props
       /\ sessions' = sessions
       /\ users' = users]_vars

C8_Witness ==
  /\ last.op = "PUT /note" /\ last.status = ErrInvalidMemo
  /\ Len(List) = 2 /\ DOMAIN sessions # {}

\* C9: a sequence returned by list() or add is detached from the store: no later
\* operation on the store changes it, and pushing to it, popping from it or
\* reversing it does not change the store.
ReplacesHeld(l) ==
  l.op \in {"add", "remove", "getAll", "clear"} /\ l.status = "ok" /\ l.arg.keep = "result"

C9_SnapshotDetached ==
  [][/\ (last'.op \in {"add", "update", "remove", "clear", "get", "getAll"}
           /\ held.kind = "array" /\ ~ReplacesHeld(last'))
          => (held'.kind = "array" /\ HeldContents' = HeldContents)
     /\ last'.op = "callerEditArray"
          => (List' = List /\ \A i \in IntIndices(MaxSnapLen) : GetNow(i)' = GetNow(i))]_vars

C9_Witness ==
  /\ Succeeded(last, "add") /\ last.arg.keep = "nothing"
  /\ held.kind = "array" /\ Len(HeldContents) = 1 /\ Len(List) = 2
  /\ HeldContents[1] # List[1]

\* C10: assigning to a field of a memo object the caller holds does not change
\* what get and list return.
C10_NoMemoAliasing ==
  [][last'.op = "callerSetField" => List' = List]_vars

\* The memo requests that run behind getUserId.
IdentityOps == {"PUT /note", "GET /note/:index", "DELETE /note/:index", "PATCH /note/:index"}

\* C11: a successful PUT /note appends exactly the memo made of the data of the
\* request and the username the token of the request resolves to at that moment.
C11_CreatedAuthorIsSessionUser ==
  [][Succeeded(last', "PUT /note") =>
       /\ last'.arg.token \in DOMAIN sessions
       /\ List' = Append(List, [data |-> last'.arg.data,
                                author |-> resolve(sessions, last'.arg.token)])]_vars

C11_Witness ==
  /\ Succeeded(last, "PUT /note")
  /\ {sessions[t] : t \in DOMAIN sessions} = ApiNames
  /\ List[Len(List)] = [data |-> "a", author |-> "bob"]
  /\ resolve(sessions, last.arg.token) = "bob"

\* C12: after a successful PATCH /note/:index by user u on index i with data d,
\* the memo at position i is {data: d, author: u} and the memo returned is that memo.
C12_PatchSetsDataAndAuthor ==
  [][Succeeded(last', "PATCH /note/:index") =>
       LET u == resolve(sessions, last'.arg.token)
           m == [data |-> last'.arg.data, author |-> u]
       IN  /\ u # NoUser
           /\ List'[ToInteger(last'.arg.index) + 1] = m
           /\ last'.val = [kind |-> "memo", defined |-> TRUE, memo |-> m]]_vars

\* The seed memo has been rewritten by alice while nobody else was registered.
C12_Witness ==
  /\ Succeeded(last, "PATCH /note/:index") /\ last.arg.index = 0
  /\ DOMAIN users = {"alice"}
  /\ List[1] = [data |-> "b", author |-> "alice"]

\* C13: for any two signed-in callers the same read, update or delete by index
\* has the same outcome, and that outcome is success for every index in range,
\* whoever the author of the memo addressed is.
C13_OutcomeIndependentOfCaller ==
  \A t \in DOMAIN sessions, index \in IntIndices(MaxApiLen), d \in {"", "b"} :
    /\ \A u \in DOMAIN sessions :
         /\ getHandler(St, sessions, t, index).status = getHandler(St, sessions, u, index).status
         /\ deleteHandler(St, sessions, t, index).status
              = deleteHandler(St, sessions, u, index).status
         /\ patchHandler(St, sessions, t, index, d).status
              = patchHandler(St, sessions, u, index, d).status
    /\ (index >= 0 /\ index < 2 * Len(List)) =>
         /\ getHandler(St, sessions, t, index).status = "ok"
         /\ deleteHandler(St, sessions, t, index).status = "ok"
         /\ patchHandler(St, sessions, t, index, d).status = "ok"

\* bob has just read a memo whose author is alice.
C13_Witness ==
  /\ Succeeded(last, "GET /note/:index")
  /\ resolve(sessions, last.arg.token) = "bob"
  /\ last.val.memo.author = "alice"
  /\ "alice" \in {sessions[t] : t \in DOMAIN sessions}

\* C14: PUT /note, GET, PATCH and DELETE /note/:index with a token that no
\* session has, or with no cookie, answer Unauthenticated (401) and leave the
\* store as it was.
C14_NoSessionNoStoreAccess ==
  [][(last'.op \in IdentityOps /\ last'.arg.token \notin DOMAIN sessions) =>
       /\ last'.status = ErrUnauthenticated
       /\ last'.code = 401
       /\ List' = List
       /\ props' = props]_vars

C14_Witness ==
  /\ last.op = "PATCH /note/:index" /\ last.status = ErrUnauthenticated
  /\ last.arg.index = 0 /\ last.arg.token = "t2"
  /\ DOMAIN sessions = {"t1"}

C16_SignedOutTokenRejected ==
  [][/\ Succeeded(last', "sign-out") =>
          (last'.arg.token \in ended' /\ last'.arg.token \notin DOMAIN sessions')
     /\ (last'.op \in IdentityOps \cup {"sign-out"} /\ last'.arg.token \in ended)
          => (last'.status = ErrUnauthenticated /\ last'.arg.token \in ended')]_vars

\* A signed-out token is refused while another session is live.
C16_Witness ==
  /\ last.op = "DELETE /note/:index" /\ last.status = ErrUnauthenticated
  /\ last.arg.index = 0
  /\ last.arg.token \in ended
  /\ DOMAIN sessions # {}

\* C17: a sign-in issues a token that no live session has and binds it to the
\* user signed in; a live token keeps resolving to that user through every
\* step except a successful sign-out of that very token, the only step that
\* ends its session; and no session appears except by sign-in.
C17_SessionsStable ==
  [][/\ \A t \in DOMAIN sessions :
          \/ (t \in DOMAIN sessions' /\ resolve(sessions', t) = resolve(sessions, t))
          \/ (Succeeded(last', "sign-out") /\ last'.arg.token = t /\ t \notin DOMAIN sessions')
     /\ Succeeded(last', "sign-in") =>
          /\ last'.val.token \notin DOMAIN sessions
          /\ resolve(sessions', last'.val.token) = last'.arg.username
     /\ \A t \in (DOMAIN sessions') \ (DOMAIN sessions) :
          Succeeded(last', "sign-in") /\ last'.val.token = t]_vars

\* One of alice's two sessions has been ended, the other one is still hers.
C17_Witness ==
  /\ Succeeded(last, "sign-out") /\ last.arg.token = "t1"
  /\ DOMAIN users = {"alice"}
  /\ DOMAIN sessions = {"t2"} /\ resolve(sessions, "t2") = "alice"

\* C18: a registered username keeps its secret for ever; sign-up of a
\* registered username fails with AlreadyExists, sign-up of a new one succeeds
\* and stores the secret given; sign-in succeeds exactly when the username is
\* registered and the secret is the stored one, and fails with AuthFailure
\* otherwise.
C18_FirstSecretStays ==
  [][/\ \A u \in DOMAIN users : u \in DOMAIN users' /\ users'[u] = users[u]
     /\ last'.op = "sign-up" =>
          /\ last'.status \in {"ok", ErrAlreadyExists}
          /\ last'.status = ErrAlreadyExists <=> last'.arg.username \in DOMAIN users
          /\ last'.status = "ok" =>
               (last'.arg.username \in DOMAIN users'
                  /\ users'[last'.arg.username] = last'.arg.secret)
     /\ last'.op = "sign-in" =>
          /\ last'.status \in {"ok", ErrAuthFailure}
          /\ last'.status = "ok" <=>
               (last'.arg.username \in DOMAIN users
                  /\ users[last'.arg.username] = last'.arg.secret)]_vars

\* alice, registered with pw1, has been refused a second registration with pw2.
C18_Witness ==
  /\ last.op = "sign-up" /\ last.status = ErrAlreadyExists
  /\ last.arg = [username |-> "alice", secret |-> "pw2"]
  /\ verify(users, "alice", "pw1") /\ ~verify(users, "alice", "pw2")

\* C19: a memo request is answered 200 exactly when the store operation
\* succeeded; InvalidIndex is answered 404 by GET /note/:index and 422 by PATCH
\* and DELETE /note/:index, and InvalidMemo is answered 400 by PUT /note.
C19_FailuresAreErrorResponses ==
  last.op \in IdentityOps \cup {"GET /note"} =>
    /\ last.code = 200 <=> last.status = "ok"
    /\ (last.op = "GET /note/:index" /\ last.status = ErrInvalidIndex) => last.code = 404
    /\ (last.op \in {"PATCH /note/:index", "DELETE /note/:index"}
          /\ last.status = ErrInvalidIndex) => last.code = 422
    /\ (last.op = "PUT /note" /\ last.status = ErrInvalidMemo) => last.code = 400

C19_Witness ==
  /\ last.op = "DELETE /note/:index" /\ last.status = ErrInvalidIndex /\ last.code = 422
  /\ last.arg.index = 2 * Len(List)

\* C20: update with an index in range fails with InvalidMemo exactly when the
\* partial gives neither data nor author a value, and succeeds otherwise; with
\* an index out of range it fails with InvalidIndex whatever the partial is.
C20_UpdateValidation ==
  [][last'.op = "update" =>
       LET p == last'.arg.memo
           valid == last'.arg.index >= 0 /\ last'.arg.index < 2 * Len(List)
           neither == Field(p, "data") = Undefined /\ Field(p, "author") = Undefined
       IN  last'.status = IF ~valid THEN ErrInvalidIndex
                          ELSE IF neither THEN ErrInvalidMemo ELSE "ok"]_vars

\* The index is looked at first: an empty partial on an index out of range.
C20_Witness ==
  /\ last.op = "update" /\ last.status = ErrInvalidIndex
  /\ last.arg.memo = EmptyObj /\ last.arg.index = 2 * Len(List) /\ Len(List) = 1

\* C21: clear succeeds in every state, returns an empty sequence and leaves
\* the store empty; while the store is empty list() is empty, count() is 0 and
\* get, update and remove fail with InvalidIndex for every index; the store
\* stays empty until a successful add, which puts its memo at position 0.
C21_ClearEmpties ==
  [][/\ clear(St).status = "ok"
     /\ last'.op = "clear" =>
          /\ last'.status = "ok"
          /\ last'.val = [kind |-> "array", items |-> <<>>]
          /\ List' = <<>>
          /\ count(St').val.n = 0
     /\ Len(List) = 0 =>
          /\ last'.op \in {"get", "update", "remove"} => last'.status = ErrInvalidIndex
          /\ last'.op = "count" => last'.val.n = 0
          /\ last'.op = "getAll" => last'.val.items = <<>>
          /\ Len(List') > 0 =>
               (Succeeded(last', "add") /\ List' = <<last'.arg.memo>>
                  /\ GetIn(St', 0).val.memo = last'.arg.memo)]_vars

\* The seed memo is gone and the memo just added is the only one.
C21_Witness ==
  /\ Succeeded(last, "add")
  /\ List = <<[data |-> "a", author |-> "alice"]>>

\* C22: get, list and count leave the sequence as it is; a successful add
\* leaves the memos at positions 0..n-1 as they are; a successful update(i, p)
\* leaves the length and every position but i as they are; and no memo
\* operation, direct or through a route, changes the session map or the
\* credentials.
C22_Frame ==
  [][/\ last'.op \in {"get", "getAll", "count", "GET /note", "GET /note/:index"} =>
          (List' = List /\ props' = props)
     /\ (Succeeded(last', "add") \/ Succeeded(last', "PUT /note")) =>
          (Len(List') = Len(List) + 1 /\ SubSeq(List', 1, Len(List)) = List)
     /\ (Succeeded(last', "update") \/ Succeeded(last', "PATCH /note/:index")) =>
          /\ Len(List') = Len(List)
          /\ \A k \in 1..Len(List) : k # ToInteger(last'.arg.index) + 1 => List'[k] = List[k]
     /\ last'.op \notin {"sign-up", "sign-in", "sign-out"} =>
          (sessions' = sessions /\ users' = users)]_vars

\* The second of two memos has been updated while a session is live.
C22_Witness ==
  /\ Succeeded(last, "update") /\ last.arg.index = 2
  /\ Len(List) = 2 /\ List[1] = SeedMemo /\ List[2].data = "b"
  /\ DOMAIN sessions # {}

\* C24: for every index the routes accept, a successful GET /note/:index
\* returns a memo that is an element of list(), a successful PATCH
\* /note/:index leaves the length as it is, returns a memo that is then an
\* element of list() and changes no other position, and an index that is not
\* an integer is refused with InvalidIndex.
C24_IndexAddressesPosition ==
  [][/\ Succeeded(last', "GET /note/:index") =>
          (last'.val.defined /\ \E k \in 1..Len(List') : List'[k] = last'.val.memo)
     /\ Succeeded(last', "PATCH /note/:index") =>
          /\ Len(List') = Len(List)
          /\ \E k \in 1..Len(List) :
               /\ List'[k] = last'.val.memo
               /\ \A j \in (1..Len(List)) \ {k} : List'[j] = List[j]
     /\ (last'.op \in {"GET /note/:index", "PATCH /note/:index", "DELETE /note/:index"}
           /\ last'.status # ErrUnauthenticated /\ ~IsInt(last'.arg.index))
          => last'.status = ErrInvalidIndex]_vars

\* C23: between the checks of a method a client has called and the return of
\* that method no step of another client changes the sequence, and when the
\* method returns, its result and the sequence are what the whole method gives
\* when run in one piece on the sequence its checks found: the calls of the
\* clients take effect one after the other, in the order in which they finish.
C23_CallsAreIndivisible ==
  [][\A c \in Clients :
       /\ (calls[c].pc = "checked" /\ calls'[c] = calls[c]) => (List' = List /\ props' = props)
       /\ (calls[c].pc = "checked" /\ calls'[c].pc = "idle") =>
            /\ last'.arg.client = c
            /\ last'.status = calls[c].expect.status
            /\ last'.val = calls[c].expect.val
            /\ List' = calls[c].expect.list]_vars

\* c2 has finished an update of the second memo, after the add that put it there.
C23_Witness ==
  /\ Succeeded(last, "update") /\ last.arg.client = "c2" /\ last.arg.index = 2
  /\ List = <<SeedMemo, [data |-> "b", author |-> "alice"]>>
  /\ \A c \in Clients : calls[c].pc = "idle"

====
